---- MODULE Spec2Model ----
(***************************************************************************)
(* Panopticon (src/run.py): a passive chat logger.  Events delivered by    *)
(* the gateway client are turned into a log path and a text record and     *)
(* appended to a per-channel, per-day log file.                            *)
(*                                                                         *)
(* Strings are sequences of code points, so that sanitising, formatting    *)
(* and appending are computed character by character.  An optional value   *)
(* (Python's None or a value) is a sequence of length 0 or 1.              *)
(***************************************************************************)
EXTENDS Integers, Sequences, FiniteSets, TLC

VARIABLES
    config,     \* the loaded config.yaml: log_dir, ignore_servers, use_localtime
    tz,         \* UTC offset (seconds) of the system's local time zone
    tasks,      \* handler invocations scheduled by the gateway client
    files,      \* file system: path -> content of every existing regular file
    dirs,       \* file system: the directories that exist
    stdout,     \* the characters printed so far
    call,       \* a direct call of one function of run.py: its name and argument
    result      \* what that call returned or raised (empty before the call)

vars == <<config, tz, tasks, files, dirs, stdout, call, result>>

\* ------------------------------------------------------------ bounds

\* longest name given to clean_filename in SpecClean
MaxNameLen == 3

\* number of events the gateway client delivers in Spec
MaxEvents == 2

\* ------------------------------------------------------------ strings

\* Printable ASCII, code points 32..126, in order.  The double quote and the
\* backtick are written by name.
Ascii ==
    << " ", "!", "QUOTE", "#", "$", "%", "&", "'", "(", ")", "*", "+", ",", "-", ".", "/",
       "0", "1", "2", "3", "4", "5", "6", "7", "8", "9", ":", ";", "<", "=", ">", "?",
       "@", "A", "B", "C", "D", "E", "F", "G", "H", "I", "J", "K", "L", "M", "N", "O",
       "P", "Q", "R", "S", "T", "U", "V", "W", "X", "Y", "Z", "[", "\\", "]", "^", "_",
       "BACKTICK", "a", "b", "c", "d", "e", "f", "g", "h", "i", "j", "k", "l", "m", "n", "o",
       "p", "q", "r", "s", "t", "u", "v", "w", "x", "y", "z", "{", "|", "}", "~" >>

\* Code point of a printable ASCII character.
Ord(c) == 31 + (CHOOSE i \in 1..Len(Ascii) : Ascii[i] = c)

\* A string literal, written as a tuple of characters, as a sequence of code points.
Lit(cs) == [i \in 1..Len(cs) |-> Ord(cs[i])]

\* Single characters.
Slash == Ord("/")
LBrace == Ord("{")
RBrace == Ord("}")
Digit0 == Ord("0")
Dash == Ord("-")
Colon == Ord(":")
LBracket == Ord("[")
RBracket == Ord("]")
EqualsSign == Ord("=")
UpperA == Ord("A")
LowerA == Ord("a")
PlusSign == Ord("+")

\* The line feed character '\n'.
NL == 10

\* Optional values.
None == << >>
Some(x) == << x >>

\* Concatenation of a sequence of strings.
RECURSIVE Concat(_)
Concat(ss) == IF ss = << >> THEN << >> ELSE Head(ss) \o Concat(Tail(ss))

\* ------------------------------------------------------------ clean_filename

\* The character class of the regular expression of clean_filename,
\*   [/\\:*?"<>|\x00-\x1f]
\* as its items: eight single characters, an escaped backslash, one range.
FilenameClass ==
    << [lo |-> Ord("/"), hi |-> Ord("/")],
       [lo |-> Ord("\\"), hi |-> Ord("\\")],
       [lo |-> Ord(":"), hi |-> Ord(":")],
       [lo |-> Ord("*"), hi |-> Ord("*")],
       [lo |-> Ord("?"), hi |-> Ord("?")],
       [lo |-> Ord("QUOTE"), hi |-> Ord("QUOTE")],
       [lo |-> Ord("<"), hi |-> Ord("<")],
       [lo |-> Ord(">"), hi |-> Ord(">")],
       [lo |-> Ord("|"), hi |-> Ord("|")],
       [lo |-> 0, hi |-> 31] >>

\* The same class with the range written \x01-\x1e.
FilenameClassShortRange ==
    [i \in 1..Len(FilenameClass) |->
        IF FilenameClass[i].lo = FilenameClass[i].hi
        THEN FilenameClass[i]
        ELSE [lo |-> FilenameClass[i].lo + 1, hi |-> FilenameClass[i].hi - 1]]

\* Does character c match the class?
ClassMatches(class, c) == \E i \in 1..Len(class) : class[i].lo <= c /\ c <= class[i].hi

\* re.sub(class, '', string): every match, left to right, is replaced by ''.
RECURSIVE ReSubEmpty(_, _)
ReSubEmpty(class, string) ==
    IF string = << >> THEN << >>
    ELSE IF ClassMatches(class, Head(string))
         THEN ReSubEmpty(class, Tail(string))
         ELSE << Head(string) >> \o ReSubEmpty(class, Tail(string))

\* clean_filename with the range one character short at both ends.
clean_filename_short_range(string) == ReSubEmpty(FilenameClassShortRange, string)

clean_filename(string) == ReSubEmpty(FilenameClass, string)

\* ------------------------------------------------------------ formatting

\* str(n) of a natural number: its decimal digits.
RECURSIVE StrInt(_)
StrInt(n) ==
    IF n < 10 THEN << Digit0 + n >>
    ELSE StrInt(n \div 10) \o << Digit0 + (n % 10) >>

\* A number zero-padded on the left to a width, as strftime pads %Y, %m, %d, %H, %M, %S.
RECURSIVE ZeroPad(_, _)
ZeroPad(digits, width) ==
    IF Len(digits) >= width THEN digits ELSE ZeroPad(<< Digit0 >> \o digits, width)

\* template.format(*args), every replacement field of the template being "{}":
\* the fields take the arguments in order; the text put in is not scanned again.
RECURSIVE Format(_, _)
Format(template, args) ==
    IF template = << >> THEN << >>
    ELSE IF Len(template) >= 2 /\ template[1] = LBrace /\ template[2] = RBrace
         THEN Head(args) \o Format(SubSeq(template, 3, Len(template)), Tail(args))
         ELSE << Head(template) >> \o Format(Tail(template), args)

\* string.replace(old, new) for a one-character old.
RECURSIVE Replace(_, _, _)
Replace(string, old, new) ==
    IF string = << >> THEN << >>
    ELSE (IF Head(string) = old THEN new ELSE << Head(string) >>)
         \o Replace(Tail(string), old, new)

\* n.to_bytes(length, byteorder='little')
RECURSIVE ToBytesLittle(_, _)
ToBytesLittle(n, length) ==
    IF length = 0 THEN << >>
    ELSE << n % 256 >> \o ToBytesLittle(n \div 256, length - 1)

\* The base64 alphabet: A-Z, a-z, 0-9, +, /.
B64Char(v) ==
    IF v < 26 THEN UpperA + v
    ELSE IF v < 52 THEN LowerA + (v - 26)
    ELSE IF v < 62 THEN Digit0 + (v - 52)
    ELSE IF v = 62 THEN PlusSign ELSE Slash

\* base64.b64encode(bytes).decode('utf-8'): three bytes give four characters,
\* a last group of one or two bytes is padded with '='.
RECURSIVE B64Encode(_)
B64Encode(bytes) ==
    IF bytes = << >> THEN << >>
    ELSE IF Len(bytes) = 1
    THEN << B64Char(bytes[1] \div 4), B64Char((bytes[1] % 4) * 16), EqualsSign, EqualsSign >>
    ELSE IF Len(bytes) = 2
    THEN << B64Char(bytes[1] \div 4),
            B64Char((bytes[1] % 4) * 16 + bytes[2] \div 16),
            B64Char((bytes[2] % 16) * 4),
            EqualsSign >>
    ELSE << B64Char(bytes[1] \div 4),
            B64Char((bytes[1] % 4) * 16 + bytes[2] \div 16),
            B64Char((bytes[2] % 16) * 4 + bytes[3] \div 64),
            B64Char(bytes[3] % 64) >>
         \o B64Encode(SubSeq(bytes, 4, Len(bytes)))

\* ------------------------------------------------------------ datetime

\* A naive datetime is its fields: year, month, day, hour, minute, second.
IsLeap(year) == (year % 4 = 0 /\ year % 100 # 0) \/ year % 400 = 0

DaysInMonth(year, month) ==
    IF month = 2 THEN (IF IsLeap(year) THEN 29 ELSE 28)
    ELSE IF month \in {4, 6, 9, 11} THEN 30 ELSE 31

\* The calendar date one day later / earlier.
NextDay(t) ==
    IF t.day < DaysInMonth(t.year, t.month) THEN [t EXCEPT !.day = t.day + 1]
    ELSE IF t.month < 12 THEN [t EXCEPT !.month = t.month + 1, !.day = 1]
    ELSE [t EXCEPT !.year = t.year + 1, !.month = 1, !.day = 1]

PrevDay(t) ==
    IF t.day > 1 THEN [t EXCEPT !.day = t.day - 1]
    ELSE IF t.month > 1
         THEN [t EXCEPT !.month = t.month - 1, !.day = DaysInMonth(t.year, t.month - 1)]
         ELSE [t EXCEPT !.year = t.year - 1, !.month = 12, !.day = 31]

\* time.replace(tzinfo=timezone.utc).astimezone(tz=None): the same instant on
\* the local clock, offset seconds east of UTC (less than a day either way).
AsLocalTime(time, offset) ==
    LET secs == time.hour * 3600 + time.minute * 60 + time.second + offset
        date == IF secs < 0 THEN PrevDay(time)
                ELSE IF secs >= 86400 THEN NextDay(time) ELSE time
        s == (secs + 86400) % 86400
    IN [date EXCEPT !.hour = s \div 3600, !.minute = (s % 3600) \div 60, !.second = s % 60]

\* time.strftime('%F'): %Y-%m-%d
StrftimeF(time) ==
    ZeroPad(StrInt(time.year), 4) \o << Dash >> \o ZeroPad(StrInt(time.month), 2)
        \o << Dash >> \o ZeroPad(StrInt(time.day), 2)

\* time.strftime('[%H:%M:%S]')
StrftimeHMS(time) ==
    << LBracket >> \o ZeroPad(StrInt(time.hour), 2) \o << Colon >>
        \o ZeroPad(StrInt(time.minute), 2) \o << Colon >>
        \o ZeroPad(StrInt(time.second), 2) \o << RBracket >>

\* ------------------------------------------------------------ names and results

\* The names bound in the module's namespace once run.py has been loaded: the
\* imports (lines 9-14), config, the functions, client and the handlers.
ModuleGlobals ==
    { "base64", "timezone", "os", "re", "discord", "yaml", "config",
      "clean_filename", "make_filename", "make_audit_filename", "make_message",
      "make_audit_ban", "make_audit", "write", "client",
      "on_message", "on_message_edit", "on_member_ban", "on_member_unban",
      "on_guild_available", "on_guild_unavailable", "on_guild_remove",
      "on_guild_add", "on_ready" }

\* Reading a global name that is not bound raises NameError.
Bound(name) == name \in ModuleGlobals

\* What a function call gives: the exception it raised ("" for none) and the
\* value it returned.
Returned(v) == [exc |-> "", value |-> v]
Raised(e) == [exc |-> e, value |-> None]

\* ------------------------------------------------------------ make_filename

TextChannelTemplate ==
    Lit(<< "{", "}", "/", "{", "}", "-", "{", "}", "/", "#", "{", "}", "-", "{", "}", "/",
           "{", "}", ".", "l", "o", "g" >>)

DMTemplate ==
    Lit(<< "{", "}", "/", "D", "M", "/", "{", "}", "-", "{", "}", "/", "{", "}", ".", "l", "o", "g" >>)

\* make_filename that names a direct-message directory after the channel
\* instead of the peer.
make_filename_dm_by_channel(message) ==
    LET time == IF message.edited_at # None THEN message.edited_at[1] ELSE message.created_at
        timestamp == StrftimeF(time)
    IN IF message.channel.type = "TextChannel"
       THEN Some(Format(TextChannelTemplate,
                << config.log_dir,
                   clean_filename(message.guild[1].name), StrInt(message.guild[1].id),
                   clean_filename(message.channel.name), StrInt(message.channel.id),
                   timestamp >>))
       ELSE IF message.channel.type \in {"DMChannel", "GroupChannel"}
       THEN Some(Format(DMTemplate,
                << config.log_dir,
                   clean_filename(message.channel.name), StrInt(message.channel.id),
                   timestamp >>))
       ELSE None

\* The path of the log file of a message; None (no return statement is
\* reached) when the channel is of none of the three types.
make_filename(message) ==
    LET time == IF message.edited_at # None THEN message.edited_at[1] ELSE message.created_at
        timestamp == StrftimeF(time)
    IN IF message.channel.type = "TextChannel"
       THEN Some(Format(TextChannelTemplate,
                << config.log_dir,
                   clean_filename(message.guild[1].name), StrInt(message.guild[1].id),
                   clean_filename(message.channel.name), StrInt(message.channel.id),
                   timestamp >>))
       ELSE IF message.channel.type = "DMChannel"
       THEN Some(Format(DMTemplate,
                << config.log_dir,
                   clean_filename(message.channel.user[1].name),
                   StrInt(message.channel.user[1].id),
                   timestamp >>))
       ELSE IF message.channel.type = "GroupChannel"
       THEN Some(Format(DMTemplate,
                << config.log_dir,
                   clean_filename(message.channel.name), StrInt(message.channel.id),
                   timestamp >>))
       ELSE None

\* ------------------------------------------------------------ make_audit_filename

RootAuditTemplate ==
    Lit(<< "{", "}", "/", "A", "U", "D", "I", "T", "/", "{", "}", ".", "l", "o", "g" >>)

GuildAuditTemplate ==
    Lit(<< "{", "}", "/", "{", "}", "-", "{", "}", "/", "A", "U", "D", "I", "T", "/",
           "{", "}", ".", "l", "o", "g" >>)

\* The path of the audit log of an event.  Its first statement reads the
\* global name datetime; now is what datetime.datetime.utcnow() gives.
make_audit_filename(event, guild, now) ==
    IF ~Bound("datetime") THEN Raised("NameError")
    ELSE LET timestamp == StrftimeF(now)
         IN IF event = "on_guild_add" \/ event = "on_guild_remove"
            THEN Returned(Some(Format(RootAuditTemplate, << config.log_dir, timestamp >>)))
            ELSE IF guild = None THEN Raised("AttributeError")
            ELSE Returned(Some(Format(GuildAuditTemplate,
                    << config.log_dir, clean_filename(guild[1].name),
                       StrInt(guild[1].id), timestamp >>)))

\* ------------------------------------------------------------ make_message

\* The string literals of make_message.
IdOpen == Lit(<< "[" >>)
IdOpenEdited == Lit(<< "[", "E", ":" >>)
IdCloseTemplate == Lit(<< "{", "}", "]" >>)
AuthorTemplate == Lit(<< "<", "{", "}", "#", "{", "}", ">" >>)
NewlineMarker == << NL >> \o Lit(<< "(", "n", "e", "w", "l", "i", "n", "e", ")", " " >>)
MessageTemplate == Lit(<< "{", "}", " ", "{", "}", " ", "{", "}", " ", "{", "}", " ", "{", "}" >>)

AttachTemplate ==
    << NL >> \o Lit(<< "(", "a", "t", "t", "a", "c", "h", ")", " ", "{", "}" >>)

\* The loop over message.attachments: '\n(attach) {0[url]}'.format(attach) for each.
RECURSIVE AttachmentLines(_)
AttachmentLines(attachments) ==
    IF attachments = << >> THEN << >>
    ELSE Format(AttachTemplate, << Head(attachments).url >>) \o AttachmentLines(Tail(attachments))

\* make_message that stamps the record with the creation time.
make_message_created_time(message) ==
    LET id_open == IF message.edited_at # None THEN IdOpenEdited ELSE IdOpen
        message_id == id_open \o Format(IdCloseTemplate,
                                        << B64Encode(ToBytesLittle(message.id, 8)) >>)
        time == IF config.use_localtime THEN AsLocalTime(message.created_at, tz) ELSE message.created_at
        timestamp == StrftimeHMS(time)
        author == Format(AuthorTemplate,
                         << message.author.name, message.author.discriminator >>)
        content == Replace(message.clean_content, NL, NewlineMarker)
        attachments == AttachmentLines(message.attachments)
    IN Format(MessageTemplate,
              << message_id, timestamp, author, content, attachments >>)

\* The record of a message:
\*   [id] [21:30:00] <user#0000> hello world
\* with the id base64 of its 8 little-endian bytes, E: before the id and the
\* edit time when the message was edited.
make_message(message) ==
    LET id_open == IF message.edited_at # None THEN IdOpenEdited ELSE IdOpen
        message_id == id_open \o Format(IdCloseTemplate,
                                        << B64Encode(ToBytesLittle(message.id, 8)) >>)
        time0 == IF message.edited_at # None THEN message.edited_at[1] ELSE message.created_at
        time == IF config.use_localtime THEN AsLocalTime(time0, tz) ELSE time0
        timestamp == StrftimeHMS(time)
        author == Format(AuthorTemplate,
                         << message.author.name, message.author.discriminator >>)
        content == Replace(message.clean_content, NL, NewlineMarker)
        attachments == AttachmentLines(message.attachments)
    IN Format(MessageTemplate,
              << message_id, timestamp, author, content, attachments >>)

\* ------------------------------------------------------------ make_audit_ban, make_audit

\* The string literals of make_audit_ban and make_audit.
AuditTemplate == Lit(<< "{", "}", " ", "{", "}", " ", "{", "}" >>)
MemberTemplate ==
    Lit(<< "<", "U", "s", "e", "r", ":", "{", "}", "#", "{", "}", ">", "(", "I", "D", ":", "{", "}", ")" >>)
GuildInfoTemplate ==
    Lit(<< "<", "G", "u", "i", "l", "d", ":", "{", "}", ">", "(", "I", "D", ":", "{", "}", ")" >>)
BanType == Lit(<< "[", "B", "A", "N", "]" >>)
UnbanType == Lit(<< "[", "U", "N", "B", "A", "N", "]" >>)
GuildOfflineType == Lit(<< "[", "G", "U", "I", "L", "D", " ", "O", "F", "F", "L", "I", "N", "E", "]" >>)
GuildOnlineType == Lit(<< "[", "G", "U", "I", "L", "D", " ", "O", "N", "L", "I", "N", "E", "]" >>)
GuildRemovedType ==
    Lit(<< "[", "G", "U", "I", "L", "D", " ", "R", "E", "M", "O", "V", "E", "D", "/", "B", "A", "N", "N", "E", "D", "]" >>)
GuildAddedType == Lit(<< "[", "G", "U", "I", "L", "D", " ", "A", "D", "D", "E", "D", "]" >>)

\* The record of a ban or an unban:  [21:30:00] [BAN] <User:name#0000>(ID:1)
make_audit_ban(event, guild, user, now) ==
    IF ~Bound("datetime") THEN Raised("NameError")
    ELSE LET time == IF config.use_localtime THEN AsLocalTime(now, tz) ELSE now
             timestamp == StrftimeHMS(time)
             member == Format(MemberTemplate,
                              << user.name, user.discriminator, StrInt(user.id) >>)
             line(type) == Format(AuditTemplate,
                                  << timestamp, type, member >>)
         IN IF event = "on_member_ban"
            THEN Returned(Some(line(BanType)))
            ELSE IF event = "on_member_unban"
            THEN Returned(Some(line(UnbanType)))
            ELSE Returned(None)

\* The record of a guild event:  [21:30:00] [GUILD ONLINE] <Guild:name>(ID:1)
make_audit(event, guild, now) ==
    IF ~Bound("datetime") THEN Raised("NameError")
    ELSE LET time == IF config.use_localtime THEN AsLocalTime(now, tz) ELSE now
             timestamp == StrftimeHMS(time)
             type ==
                 IF event = "on_guild_unavailable"
                 THEN Some(GuildOfflineType)
                 ELSE IF event = "on_guild_available"
                 THEN Some(GuildOnlineType)
                 ELSE IF event = "on_guild_remove"
                 THEN Some(GuildRemovedType)
                 ELSE IF event = "on_guild_add"
                 THEN Some(GuildAddedType)
                 ELSE None
         IN IF type = None THEN Returned(None)
            ELSE IF guild = None THEN Raised("AttributeError")
            ELSE Returned(Some(Format(AuditTemplate,
                    << timestamp, type[1],
                       Format(GuildInfoTemplate,
                              << guild[1].name, StrInt(guild[1].id) >>) >>)))

\* ------------------------------------------------------------ write

\* The index of the last '/' of a path, 0 when it has none.
LastSlash(path) ==
    LET at == { i \in 1..Len(path) : path[i] = Slash }
    IN IF at = {} THEN 0 ELSE CHOOSE i \in at : \A j \in at : j <= i

\* string.rstrip('/')
RECURSIVE RStripSlash(_)
RStripSlash(string) ==
    IF string # << >> /\ string[Len(string)] = Slash
    THEN RStripSlash(SubSeq(string, 1, Len(string) - 1))
    ELSE string

\* os.path.dirname(path): the path up to its last '/', without trailing
\* slashes unless it is made of slashes only.
DirName(path) ==
    LET head == SubSeq(path, 1, LastSlash(path))
    IN IF head # << >> /\ RStripSlash(head) # << >> THEN RStripSlash(head) ELSE head

\* The directories os.makedirs(dir) makes sure exist: dir and every directory above it.
DirsOf(dir) ==
    { SubSeq(dir, 1, k) : k \in { j \in 1..Len(dir) : j = Len(dir) \/ dir[j + 1] = Slash } }
        \ { << >> }

\* What the file system does to one call of write: every step succeeds, or
\* makedirs, open or the write of the data fails with an OSError.
Faults == {"none", "makedirs", "open", "write"}

\* write that opens the file in mode 'w'.
write_truncate(filename, string, fault) ==
    IF filename = None THEN [exc |-> "TypeError", files |-> files, dirs |-> dirs]
    ELSE LET dir == DirName(filename[1])
             madeDirs == dirs \cup DirsOf(dir)
             opened == IF filename[1] \in DOMAIN files THEN [files EXCEPT ![filename[1]] = << >>]
                       ELSE files @@ (filename[1] :> << >>)
         IN IF dir = << >> THEN [exc |-> "FileNotFoundError", files |-> files, dirs |-> dirs]
            ELSE IF fault = "makedirs" THEN [exc |-> "OSError", files |-> files, dirs |-> dirs]
            ELSE IF fault = "open" THEN [exc |-> "OSError", files |-> files, dirs |-> madeDirs]
            ELSE IF string = None THEN [exc |-> "TypeError", files |-> opened, dirs |-> madeDirs]
            ELSE IF fault = "write" THEN [exc |-> "OSError", files |-> opened, dirs |-> madeDirs]
            ELSE [exc |-> "",
                  files |-> [opened EXCEPT ![filename[1]] = @ \o string[1] \o << NL >>],
                  dirs |-> madeDirs]

\* write that catches the OSError of a failed step and returns.
write_swallow(filename, string, fault) ==
    IF filename = None THEN [exc |-> "TypeError", files |-> files, dirs |-> dirs]
    ELSE LET dir == DirName(filename[1])
             madeDirs == dirs \cup DirsOf(dir)
             opened == IF filename[1] \in DOMAIN files THEN files
                       ELSE files @@ (filename[1] :> << >>)
         IN IF dir = << >> THEN [exc |-> "FileNotFoundError", files |-> files, dirs |-> dirs]
            ELSE IF fault = "makedirs" THEN [exc |-> "", files |-> files, dirs |-> dirs]
            ELSE IF fault = "open" THEN [exc |-> "", files |-> files, dirs |-> madeDirs]
            ELSE IF string = None THEN [exc |-> "TypeError", files |-> opened, dirs |-> madeDirs]
            ELSE IF fault = "write" THEN [exc |-> "", files |-> opened, dirs |-> madeDirs]
            ELSE [exc |-> "",
                  files |-> [opened EXCEPT ![filename[1]] = @ \o string[1] \o << NL >>],
                  dirs |-> madeDirs]

\* write(filename, string): make the directory of the file, open the file for
\* appending (creating it), write string + "\n", close.  Nothing is caught:
\* an exception of any step leaves write.  Gives the exception and the file
\* system after the call.
write(filename, string, fault) ==
    IF filename = None THEN [exc |-> "TypeError", files |-> files, dirs |-> dirs]
    ELSE LET dir == DirName(filename[1])
             madeDirs == dirs \cup DirsOf(dir)
             opened == IF filename[1] \in DOMAIN files THEN files
                       ELSE files @@ (filename[1] :> << >>)
         IN IF dir = << >> THEN [exc |-> "FileNotFoundError", files |-> files, dirs |-> dirs]
            ELSE IF fault = "makedirs" THEN [exc |-> "OSError", files |-> files, dirs |-> dirs]
            ELSE IF fault = "open" THEN [exc |-> "OSError", files |-> files, dirs |-> madeDirs]
            ELSE IF string = None THEN [exc |-> "TypeError", files |-> opened, dirs |-> madeDirs]
            ELSE IF fault = "write" THEN [exc |-> "OSError", files |-> opened, dirs |-> madeDirs]
            ELSE [exc |-> "",
                  files |-> [opened EXCEPT ![filename[1]] = @ \o string[1] \o << NL >>],
                  dirs |-> madeDirs]

\* ------------------------------------------------------------ handlers

\* What running a handler gives: the exception that left it ("" when it
\* returned), the file system and the console after it.
Outcome(exc, w_files, w_dirs, out) ==
    [exc |-> exc, files |-> w_files, dirs |-> w_dirs, stdout |-> out]

\* print(string)
PrintLine(string) == stdout \o string \o << NL >>

\* The body of on_message(message).
on_message_coro(message, fault) ==
    IF message.guild # None /\ message.guild[1].id \in config.ignore_servers
    THEN Outcome("", files, dirs, stdout)
    ELSE LET filename == make_filename(message)
             string == make_message(message)
             w == write(filename, Some(string), fault)
         IN IF w.exc # "" THEN Outcome(w.exc, w.files, w.dirs, stdout)
            ELSE Outcome("", w.files, w.dirs, PrintLine(string))

\* The body of on_message_edit(_, message).
on_message_edit_coro(message, fault) ==
    IF message.guild # None /\ message.guild[1].id \in config.ignore_servers
    THEN Outcome("", files, dirs, stdout)
    ELSE LET filename == make_filename(message)
             string == make_message(message)
             w == write(filename, Some(string), fault)
         IN IF w.exc # "" THEN Outcome(w.exc, w.files, w.dirs, stdout)
            ELSE Outcome("", w.files, w.dirs, PrintLine(string))

\* The condition  guild and guild.id in IGNORE_GUILDS  of the audit handlers:
\* "NameError" when reading IGNORE_GUILDS raises, else "ignored" or "logged".
\* A guild object is true, None is false and ends the condition before the
\* name is read.  (Were the name bound, it would hold the ignore list.)
AuditIgnoreCheck(guild) ==
    IF guild = None THEN "logged"
    ELSE IF ~Bound("IGNORE_GUILDS") THEN "NameError"
    ELSE IF guild[1].id \in config.ignore_servers THEN "ignored" ELSE "logged"

\* The last three statements of an audit handler:
\*   filename = make_audit_filename(...); string = make_audit...(...); write(filename, string)
AuditLog(filename, string, fault) ==
    IF filename.exc # "" THEN Outcome(filename.exc, files, dirs, stdout)
    ELSE IF string.exc # "" THEN Outcome(string.exc, files, dirs, stdout)
    ELSE LET w == write(filename.value, string.value, fault)
         IN Outcome(w.exc, w.files, w.dirs, stdout)

\* The body of an audit handler up to its log statements.
AuditHandler(guild, fault, filename, string) ==
    LET check == AuditIgnoreCheck(guild)
    IN IF check = "NameError" THEN Outcome("NameError", files, dirs, stdout)
       ELSE IF check = "ignored" THEN Outcome("", files, dirs, stdout)
       ELSE AuditLog(filename, string, fault)

on_member_ban_coro(guild, member, now, fault) ==
    AuditHandler(guild, fault,
                 make_audit_filename("on_member_ban", guild, now),
                 make_audit_ban("on_member_ban", guild, member, now))

on_member_unban_coro(guild, user, now, fault) ==
    AuditHandler(guild, fault,
                 make_audit_filename("on_member_unban", guild, now),
                 make_audit_ban("on_member_unban", guild, user, now))

on_guild_available_coro(guild, now, fault) ==
    AuditHandler(guild, fault,
                 make_audit_filename("on_guild_available", guild, now),
                 make_audit("on_guild_available", guild, now))

\* guildfix = utils.find(...) reads the global name utils; were it bound,
\* guildfix would be the client's guild of the same id.
on_guild_unavailable_coro(guild, now, fault) ==
    LET check == AuditIgnoreCheck(guild)
        guildfix == guild
    IN IF check = "NameError" THEN Outcome("NameError", files, dirs, stdout)
       ELSE IF check = "ignored" THEN Outcome("", files, dirs, stdout)
       ELSE IF ~Bound("utils") THEN Outcome("NameError", files, dirs, stdout)
       ELSE AuditLog(make_audit_filename("on_guild_unavailable", guildfix, now),
                     make_audit("on_guild_unavailable", guildfix, now), fault)

on_guild_remove_coro(guild, now, fault) ==
    AuditHandler(guild, fault,
                 make_audit_filename("on_guild_remove", guild, now),
                 make_audit("on_guild_remove", guild, now))

on_guild_add_coro(guild, now, fault) ==
    AuditHandler(guild, fault,
                 make_audit_filename("on_guild_add", guild, now),
                 make_audit("on_guild_add", guild, now))

\* ------------------------------------------------------------ the events

Str(cs) == Lit(cs)

Time(y, mo, d, h, mi, sec) ==
    [year |-> y, month |-> mo, day |-> d, hour |-> h, minute |-> mi, second |-> sec]

\* Two instants either side of midnight (and of a year's end), and one in
\* the morning of the later day.
LateEvening == Time(2016, 12, 31, 23, 59, 58)
AfterMidnight == Time(2017, 1, 1, 0, 0, 5)
Morning == Time(2017, 1, 1, 7, 8, 9)

\* What datetime.datetime.utcnow() may give.
Clock == {LateEvening, AfterMidnight}

User(id, name) == [id |-> id, name |-> name, discriminator |-> Str(<< "0", "0", "0", "1" >>)]
Guild(id, name) == [id |-> id, name |-> name]
Channel(type, id, name, user) == [type |-> type, id |-> id, name |-> name, user |-> user]

Alice == User(5, Str(<< "a", "l", "?" >>))
GuildA == Guild(7, Str(<< "a", "/", "b" >>))
GuildB == Guild(42, Str(<< "x" >>))
IgnoredGuildIds == {GuildB.id}

TextA == Channel("TextChannel", 11, Str(<< "g", ":", "n" >>), None)
TextB == Channel("TextChannel", 15, Str(<< "g" >>), None)
DMAlice == Channel("DMChannel", 12, << >>, Some(Alice))
GroupG == Channel("GroupChannel", 13, Str(<< "t", "|", "o" >>), None)
VoiceA == Channel("VoiceChannel", 14, Str(<< "v" >>), None)

Message(id, channel, guild, created_at, edited_at, content, attachments) ==
    [id |-> id, channel |-> channel, guild |-> guild, author |-> Alice,
     created_at |-> created_at, edited_at |-> edited_at,
     clean_content |-> content, attachments |-> attachments]

\* Messages the gateway delivers in Spec: two of one guild channel that fall
\* into the same daily file (one by its creation, one by its edit), one of an
\* ignored guild, a direct message with an attachment, a group message, and
\* one of a channel of another type.
Msg1 == Message(1, TextA, Some(GuildA), AfterMidnight, None, Str(<< "h", "i" >>), << >>)
Msg2 == Message(2, TextA, Some(GuildA), LateEvening, Some(AfterMidnight),
                Str(<< "a" >>) \o << NL >> \o Str(<< "b" >>), << >>)
Msg3 == Message(3, TextB, Some(GuildB), LateEvening, None, Str(<< "s" >>), << >>)
Msg4 == Message(300, DMAlice, None, LateEvening, None, Str(<< "{", "}" >>),
                << [url |-> Str(<< "u", "/", "1" >>)] >>)
Msg5 == Message(5, GroupG, None, LateEvening, None, << >>, << >>)
Msg6 == Message(6, VoiceA, Some(GuildA), LateEvening, None, Str(<< "v" >>), << >>)

Event(name, message, guild, user) ==
    [event |-> name, message |-> message, guild |-> guild, user |-> user]

\* Every audit event comes for a logged and for an ignored guild; the events
\* about joining and leaving a guild also come without a guild object.
Events ==
    { Event("on_message", Some(m), None, None) : m \in {Msg1, Msg3, Msg4, Msg5, Msg6} }
    \cup { Event("on_message_edit", Some(m), None, None) : m \in {Msg2, Msg3} }
    \cup { Event(e, None, Some(g), Some(Alice)) : e \in {"on_member_ban", "on_member_unban"},
                                                   g \in {GuildA, GuildB} }
    \cup { Event(e, None, Some(g), None) :
              e \in {"on_guild_available", "on_guild_unavailable", "on_guild_remove", "on_guild_add"},
              g \in {GuildA, GuildB} }
    \cup { Event(e, None, None, None) : e \in {"on_guild_remove", "on_guild_add"} }

\* ------------------------------------------------------------ the dispatcher

\* config.yaml as loaded at line 17.
Configs ==
    { [log_dir |-> Str(<< "l", "o", "g" >>), ignore_servers |-> IgnoredGuildIds, use_localtime |-> b] :
        b \in BOOLEAN }

LocalOffsets == {-18000, 32400}

\* The state once run.py has been loaded: config read, the client created, no
\* event delivered yet.  The local zone is nine hours east of UTC.
Init ==
    /\ config \in Configs
    /\ tz = 32400
    /\ tasks = << >>
    /\ files = << >>
    /\ dirs = {}
    /\ stdout = << >>
    /\ call = [fn |-> "", arg |-> << >>]
    /\ result = None

\* The gateway client receives an event and schedules the handler registered
\* for it with @client.event; every invocation is a task of its own.
Deliver(e) ==
    /\ Len(tasks) < MaxEvents
    /\ tasks' = Append(tasks, [event |-> e.event, message |-> e.message, guild |-> e.guild,
                               user |-> e.user, status |-> "scheduled", exc |-> ""])
    /\ UNCHANGED <<config, tz, files, dirs, stdout, call, result>>

\* A handler has no await: once the event loop starts it, it runs to its end
\* (a return or an exception) before anything else runs.  The handlers below
\* take every outcome the file system and the clock allow.
Finish(i, out) ==
    /\ tasks' = [tasks EXCEPT ![i].status = IF out.exc = "" THEN "returned" ELSE "raised",
                              ![i].exc = out.exc]
    /\ files' = out.files
    /\ dirs' = out.dirs
    /\ stdout' = out.stdout
    /\ UNCHANGED <<config, tz, call, result>>

Scheduled(i, event) ==
    /\ i \in 1..Len(tasks)
    /\ tasks[i].status = "scheduled"
    /\ tasks[i].event = event

on_message(i) ==
    /\ Scheduled(i, "on_message")
    /\ \E out \in { on_message_coro(tasks[i].message[1], fault) : fault \in Faults } :
          Finish(i, out)

on_message_edit(i) ==
    /\ Scheduled(i, "on_message_edit")
    /\ \E out \in { on_message_edit_coro(tasks[i].message[1], fault) : fault \in Faults } :
          Finish(i, out)

on_member_ban(i) ==
    /\ Scheduled(i, "on_member_ban")
    /\ \E out \in { on_member_ban_coro(tasks[i].guild, tasks[i].user[1], now, fault) :
                      fault \in Faults, now \in Clock } :
          Finish(i, out)

on_member_unban(i) ==
    /\ Scheduled(i, "on_member_unban")
    /\ \E out \in { on_member_unban_coro(tasks[i].guild, tasks[i].user[1], now, fault) :
                      fault \in Faults, now \in Clock } :
          Finish(i, out)

on_guild_available(i) ==
    /\ Scheduled(i, "on_guild_available")
    /\ \E out \in { on_guild_available_coro(tasks[i].guild, now, fault) :
                      fault \in Faults, now \in Clock } :
          Finish(i, out)

on_guild_unavailable(i) ==
    /\ Scheduled(i, "on_guild_unavailable")
    /\ \E out \in { on_guild_unavailable_coro(tasks[i].guild, now, fault) :
                      fault \in Faults, now \in Clock } :
          Finish(i, out)

on_guild_remove(i) ==
    /\ Scheduled(i, "on_guild_remove")
    /\ \E out \in { on_guild_remove_coro(tasks[i].guild, now, fault) :
                      fault \in Faults, now \in Clock } :
          Finish(i, out)

on_guild_add(i) ==
    /\ Scheduled(i, "on_guild_add")
    /\ \E out \in { on_guild_add_coro(tasks[i].guild, now, fault) :
                      fault \in Faults, now \in Clock } :
          Finish(i, out)

Next ==
    \/ \E e \in Events : Deliver(e)
    \/ \E i \in 1..MaxEvents :
          \/ on_message(i)
          \/ on_message_edit(i)
          \/ on_member_ban(i)
          \/ on_member_unban(i)
          \/ on_guild_available(i)
          \/ on_guild_unavailable(i)
          \/ on_guild_remove(i)
          \/ on_guild_add(i)

Spec == Init /\ [][Next]_vars

\* ------------------------------------------------------------ direct calls

\* Characters the names of SpecClean are drawn from: every single character of
\* the class, both ends and the inside of its range, the neighbours of the
\* range, and some characters the class leaves alone.
NameChars ==
    { Ord(Ascii[i]) : i \in { j \in 1..Len(Ascii) :
          Ascii[j] \in {"/", "\\", ":", "*", "?", "QUOTE", "<", ">", "|", " ", "a", "-", "#"} } }
    \cup {0, 9, 31, 127}

RECURSIVE StringsUpTo(_, _)
StringsUpTo(chars, n) ==
    IF n = 0 THEN { << >> }
    ELSE LET shorter == StringsUpTo(chars, n - 1)
         IN shorter \cup { << c >> \o s : c \in chars, s \in { t \in shorter : Len(t) = n - 1 } }

\* While functions are called directly no event is delivered: the dispatcher
\* is idle and the file system and the console are untouched.
DispatcherIdle ==
    /\ tasks = << >>
    /\ files = << >>
    /\ dirs = {}
    /\ stdout = << >>

\* The configurations and local time zones of the direct calls.
CallConfigs ==
    { [log_dir |-> Str(<< "l", "o", "g" >>), ignore_servers |-> IgnoredGuildIds, use_localtime |-> b] :
        b \in BOOLEAN }

InitClean ==
    /\ DispatcherIdle
    /\ config \in { c \in CallConfigs : ~c.use_localtime }
    /\ tz = 0
    /\ call \in { [fn |-> "clean_filename", arg |-> s] : s \in StringsUpTo(NameChars, MaxNameLen) }
    /\ result = None

CallCleanFilename ==
    /\ call.fn = "clean_filename"
    /\ result = None
    /\ result' = Some(clean_filename(call.arg))
    /\ UNCHANGED <<config, tz, tasks, files, dirs, stdout, call>>

NextClean == CallCleanFilename

SpecClean == InitClean /\ [][NextClean]_vars

\* Messages given to make_filename and make_message: every channel type,
\* unedited and edited, the edit on the day of the creation or on the next.
CallMessages ==
    { Message(id, ch[1], ch[2], t[1], t[2], content, attachments) :
        id \in {1, 300},
        ch \in { << TextA, Some(GuildA) >>, << DMAlice, None >>, << GroupG, None >>,
                 << VoiceA, Some(GuildA) >> },
        t \in { << LateEvening, None >>, << LateEvening, Some(AfterMidnight) >>,
                << LateEvening, Some(Morning) >>, << AfterMidnight, None >>,
                << AfterMidnight, Some(Morning) >> },
        content \in { Str(<< "h", "i" >>), Str(<< "a" >>) \o << NL >> \o Str(<< "b" >>) },
        attachments \in { << >>, << [url |-> Str(<< "u", "/", "1" >>)] >> } }

InitMsg ==
    /\ DispatcherIdle
    /\ config \in CallConfigs
    /\ tz \in LocalOffsets
    /\ call \in { [fn |-> f, arg |-> m] : f \in {"make_filename", "make_message"}, m \in CallMessages }
    /\ result = None

CallMakeFilename ==
    /\ call.fn = "make_filename"
    /\ result = None
    /\ result' = Some(Returned(make_filename(call.arg)))
    /\ UNCHANGED <<config, tz, tasks, files, dirs, stdout, call>>

CallMakeMessage ==
    /\ call.fn = "make_message"
    /\ result = None
    /\ result' = Some(Returned(make_message(call.arg)))
    /\ UNCHANGED <<config, tz, tasks, files, dirs, stdout, call>>

NextMsg == CallMakeFilename \/ CallMakeMessage

SpecMsg == InitMsg /\ [][NextMsg]_vars

\* Calls of make_audit_filename: every audit event, with a guild or without.
InitAudit ==
    /\ DispatcherIdle
    /\ config \in CallConfigs
    /\ tz \in LocalOffsets
    /\ call \in { [fn |-> "make_audit_filename", arg |-> [event |-> e, guild |-> g]] :
                    e \in {"on_member_ban", "on_member_unban", "on_guild_available",
                           "on_guild_unavailable", "on_guild_remove", "on_guild_add"},
                    g \in {Some(GuildA), Some(GuildB), None} }
    /\ result = None

CallMakeAuditFilename ==
    /\ call.fn = "make_audit_filename"
    /\ result = None
    /\ \E now \in Clock \cup {Morning} :
          result' = Some([ret |-> make_audit_filename(call.arg.event, call.arg.guild, now),
                          now |-> now])
    /\ UNCHANGED <<config, tz, tasks, files, dirs, stdout, call>>

NextAudit == CallMakeAuditFilename

SpecAudit == InitAudit /\ [][NextAudit]_vars

\* ------------------------------------------------------------ what the claims speak of

\* The characters the claims list as removed from names: / \ : * ? " < > |
\* and 0x00-0x1F.
RemovedChars == {47, 92, 58, 42, 63, 34, 60, 62, 124} \cup 0..31

KeepChar(c) == c \notin RemovedChars

\* A name without the removed characters.
Sanitized(name) == SelectSeq(name, KeepChar)

\* Segments joined by '/'.
RECURSIVE JoinPath(_)
JoinPath(segments) ==
    IF Len(segments) = 1 THEN segments[1]
    ELSE segments[1] \o << 47 >> \o JoinPath(Tail(segments))

TwoDigits(n) == << 48 + (n \div 10), 48 + (n % 10) >>

\* YYYY-MM-DD of a timestamp.
DateText(t) ==
    TwoDigits(t.year \div 100) \o TwoDigits(t.year % 100) \o << 45 >>
        \o TwoDigits(t.month) \o << 45 >> \o TwoDigits(t.day)

\* [HH:MM:SS] of a time of day given in seconds.
ClockText(secs) ==
    << 91 >> \o TwoDigits(secs \div 3600) \o << 58 >> \o TwoDigits((secs % 3600) \div 60)
        \o << 58 >> \o TwoDigits(secs % 60) \o << 93 >>

LogSuffix == Str(<< ".", "l", "o", "g" >>)
DMSegment == Str(<< "D", "M" >>)
AuditSegment == Str(<< "A", "U", "D", "I", "T" >>)

\* The effective timestamp of a message: the edit time when set, else the creation time.
Effective(m) == IF m.edited_at = None THEN m.created_at ELSE m.edited_at[1]

\* The time of day the record of a message shows: that of the effective
\* timestamp, on the local clock when use_localtime is set.
DisplaySeconds(m) ==
    LET t == Effective(m)
        utc == t.hour * 3600 + t.minute * 60 + t.second
    IN IF config.use_localtime THEN (utc + tz + 86400) % 86400 ELSE utc

KnownChannelTypes == {"TextChannel", "DMChannel", "GroupChannel"}

\* The path the claim gives for a message of a known channel type.
ClaimedMessagePath(m) ==
    LET file == DateText(Effective(m)) \o LogSuffix
    IN IF m.channel.type = "TextChannel"
       THEN JoinPath(<< config.log_dir,
                        Sanitized(m.guild[1].name) \o << 45 >> \o StrInt(m.guild[1].id),
                        << 35 >> \o Sanitized(m.channel.name) \o << 45 >> \o StrInt(m.channel.id),
                        file >>)
       ELSE IF m.channel.type = "DMChannel"
       THEN JoinPath(<< config.log_dir, DMSegment,
                        Sanitized(m.channel.user[1].name) \o << 45 >> \o StrInt(m.channel.user[1].id),
                        file >>)
       ELSE JoinPath(<< config.log_dir, DMSegment,
                        Sanitized(m.channel.name) \o << 45 >> \o StrInt(m.channel.id),
                        file >>)

\* The path the claim gives for an audit event at the time now.
ClaimedAuditPath(event, guild, now) ==
    LET file == DateText(now) \o LogSuffix
    IN IF event \in {"on_guild_add", "on_guild_remove"}
       THEN JoinPath(<< config.log_dir, AuditSegment, file >>)
       ELSE JoinPath(<< config.log_dir,
                        Sanitized(guild[1].name) \o << 45 >> \o StrInt(guild[1].id),
                        AuditSegment, file >>)

\* The guild an event carries, if any.
TaskGuild(t) == IF t.message # None THEN t.message[1].guild ELSE t.guild

\* The event's guild is in the ignore set.
Suppressed(t) == TaskGuild(t) # None /\ TaskGuild(t)[1].id \in config.ignore_servers

IsMessageTask(t) == t.event \in {"on_message", "on_message_edit"}

\* An event with a path to build: a message of one of the three channel
\* types, an audit event with its guild object.
Loggable(t) ==
    IF IsMessageTask(t) THEN t.message[1].channel.type \in KnownChannelTypes
    ELSE t.guild # None

\* The handler of task i runs in this step.
Ran(i) ==
    /\ i \in 1..Len(tasks)
    /\ tasks[i].status = "scheduled"
    /\ tasks'[i].status # "scheduled"

\* The content of a file before and after the step, empty when it does not exist.
Before(p) == IF p \in DOMAIN files THEN files[p] ELSE << >>
After(p) == IF p \in DOMAIN files' THEN files'[p] ELSE << >>

\* What the step appended to file p (empty unless the old content is kept).
Appended(p) ==
    IF Len(After(p)) >= Len(Before(p)) /\ SubSeq(After(p), 1, Len(Before(p))) = Before(p)
    THEN SubSeq(After(p), Len(Before(p)) + 1, Len(After(p)))
    ELSE << >>

\* The step leaves the content of every file as it was.
NoFileContentChanged ==
    \A p \in DOMAIN files \cup DOMAIN files' : After(p) = Before(p)

\* The step appends exactly one record, rec, to exactly one file, p.
AppendedOneRecord(p, rec) ==
    /\ After(p) = Before(p) \o rec
    /\ \A q \in (DOMAIN files \cup DOMAIN files') \ {p} : After(q) = Before(q)

\* What the step wrote to the console.
Printed ==
    IF Len(stdout') >= Len(stdout) /\ SubSeq(stdout', 1, Len(stdout)) = stdout
    THEN SubSeq(stdout', Len(stdout) + 1, Len(stdout'))
    ELSE << >>

\* The injective sequences of all elements of a finite set.
Orderings(S) ==
    { f \in [1..Cardinality(S) -> S] : \A a, b \in 1..Cardinality(S) : a # b => f[a] # f[b] }

\* ------------------------------------------------------------ C1

\* C1: every delivered event of the eight kinds whose guild is absent or not
\* in the ignore set is handled to completion and appends exactly one record,
\* ending in a newline, to one log file (for a message: its formatted line to
\* the path built for it).  Stated for the events with a path to build (a
\* message of a known channel type, any audit event) and a file system that
\* does not fail.
C1_EveryEventLogged ==
    [][\A i \in 1..Len(tasks) :
          (Ran(i) /\ ~Suppressed(tasks[i]) /\ Loggable(tasks[i]) /\ tasks'[i].exc # "OSError") =>
              /\ tasks'[i].status = "returned"
              /\ \E p \in DOMAIN files' :
                    /\ AppendedOneRecord(p, Appended(p))
                    /\ Appended(p) # << >>
                    /\ Appended(p)[Len(Appended(p))] = NL
                    /\ IsMessageTask(tasks[i]) =>
                          /\ Some(p) = make_filename(tasks[i].message[1])
                          /\ Appended(p) = make_message(tasks[i].message[1]) \o << NL >>]_vars

\* ------------------------------------------------------------ C2

\* C2: an event of any kind whose guild is in the ignore set creates no
\* directory, creates or appends to no file, prints nothing, and its handler
\* returns normally.
C2_IgnoredIsSilent ==
    [][\A i \in 1..Len(tasks) :
          (Ran(i) /\ Suppressed(tasks[i])) =>
              /\ tasks'[i].status = "returned"
              /\ UNCHANGED <<files, dirs, stdout>>]_vars

\* ------------------------------------------------------------ C3

\* The handler invocations that returned after appending to path p.
WritersOf(p) ==
    { i \in 1..Len(tasks) :
        /\ tasks[i].status = "returned"
        /\ IsMessageTask(tasks[i])
        /\ ~Suppressed(tasks[i])
        /\ make_filename(tasks[i].message[1]) = Some(p) }

\* The handler invocations that called write for path p.
CallersOf(p) ==
    { i \in 1..Len(tasks) :
        /\ tasks[i].status # "scheduled"
        /\ IsMessageTask(tasks[i])
        /\ ~Suppressed(tasks[i])
        /\ make_filename(tasks[i].message[1]) = Some(p) }

\* C3: whatever the order in which the handlers of the events in flight run,
\* every log file holds exactly the complete records (line plus newline) of
\* the write calls made for its path, one after the other in some order, no
\* record cut or mixed with another; there are as many records as calls, a
\* call that failed with an OSError leaving none.
C3_AppendsSerialized ==
    \A p \in DOMAIN files :
        LET writers == WritersOf(p)
            callers == CallersOf(p)
            record(i) == make_message(tasks[i].message[1]) \o << NL >>
        IN /\ \E order \in Orderings(writers) :
                 files[p] = Concat([k \in 1..Cardinality(writers) |-> record(order[k])])
           /\ Cardinality(writers) =
                 Cardinality(callers) - Cardinality({ i \in callers : tasks[i].exc = "OSError" })

\* Two events for the same path were in flight together and both have been written.
C3_Witness ==
    /\ Len(tasks) >= 2
    /\ tasks[1].message = Some(Msg1) /\ tasks[2].message = Some(Msg2)
    /\ tasks[1].status = "returned" /\ tasks[2].status = "returned"
    /\ \E p \in DOMAIN files :
          /\ WritersOf(p) = {1, 2}
          /\ files[p] = make_message(Msg2) \o << NL >> \o make_message(Msg1) \o << NL >>

\* ------------------------------------------------------------ C4

\* C4: the effective timestamp of a message (edit time when set, else
\* creation time) is the one used throughout: the path make_filename builds
\* ends in the date of the effective timestamp, the record make_message builds
\* carries the time of day of the effective timestamp (on the local clock when
\* use_localtime is set), and the record's identifier starts with E: exactly
\* when the edit time is set; also when the two times are on different days.
C4_EffectiveTimestamp ==
    /\ (call.fn = "make_filename" /\ result # None /\ result[1].value # None) =>
          LET path == result[1].value[1]
          IN /\ Len(path) >= 14
             /\ SubSeq(path, Len(path) - 13, Len(path)) = DateText(Effective(call.arg)) \o LogSuffix
    /\ (call.fn = "make_message" /\ result # None) =>
          LET line == result[1].value
              edited == call.arg.edited_at # None
              k == IF edited THEN 3 ELSE 1
          IN /\ line[1] = 91
             /\ (SubSeq(line, 2, 3) = << 69, 58 >>) <=> edited
             /\ line[k + 13] = 93
             /\ SubSeq(line, k + 15, k + 24) = ClockText(DisplaySeconds(call.arg))

\* An edited message whose creation and edit fall on different days has been formatted.
C4_Witness ==
    /\ call.fn = "make_message"
    /\ result # None
    /\ call.arg.created_at = LateEvening
    /\ call.arg.edited_at = Some(AfterMidnight)
    /\ ~config.use_localtime
    /\ SubSeq(result[1].value, 1, 3) = Str(<< "[", "E", ":" >>)
    /\ SubSeq(result[1].value, 18, 27) = Str(<< "[", "0", "0", ":", "0", "0", ":", "0", "5", "]" >>)

\* ------------------------------------------------------------ C5

\* The channel identity, effective date and channel variant of two messages agree.
SamePlaceAndDay(m1, m2) ==
    /\ m1.channel = m2.channel
    /\ m1.guild = m2.guild
    /\ DateText(Effective(m1)) = DateText(Effective(m2))

\* C5: the path of a message follows from its channel variant alone:
\* {root}/{sanitize(guildName)}-{guildId}/#{sanitize(channelName)}-{channelId}/{date}.log
\* for a guild text channel, {root}/DM/{sanitize(peerName)}-{peerId}/{date}.log
\* for a direct-message channel, {root}/DM/{sanitize(groupName)}-{groupId}/{date}.log
\* for a group channel; and any message of the same channel and effective date
\* gets the same path under the same config.
C5_MessagePath ==
    (call.fn = "make_filename" /\ result # None
        /\ call.arg.channel.type \in KnownChannelTypes) =>
        /\ result[1].exc = ""
        /\ result[1].value = Some(ClaimedMessagePath(call.arg))
        /\ \A m \in CallMessages :
              SamePlaceAndDay(m, call.arg) => make_filename(m) = result[1].value

\* The path of a direct message has been built, named after the peer.
C5_Witness ==
    /\ call.fn = "make_filename"
    /\ result # None
    /\ call.arg.channel.type = "DMChannel"
    /\ call.arg.edited_at = Some(Morning)
    /\ result[1].value =
          Some(Str(<< "l", "o", "g", "/", "D", "M", "/", "a", "l", "-", "5", "/",
                      "2", "0", "1", "7", "-", "0", "1", "-", "0", "1", ".", "l", "o", "g" >>))

\* ------------------------------------------------------------ C6

\* C6: guild-added and guild-removed events resolve to {root}/AUDIT/{date}.log
\* whatever the guild object carries (also without one); ban, unban and
\* availability events of a guild resolve to
\* {root}/{sanitize(guildName)}-{guildId}/AUDIT/{date}.log.
C6_AuditPath ==
    (call.fn = "make_audit_filename" /\ result # None
        /\ (call.arg.guild # None \/ call.arg.event \in {"on_guild_add", "on_guild_remove"})) =>
        /\ result[1].ret.exc = ""
        /\ result[1].ret.value =
              Some(ClaimedAuditPath(call.arg.event, call.arg.guild, result[1].now))

\* ------------------------------------------------------------ C7

\* C7: a message whose channel is of none of the three known types gets no
\* path, and its handler drops it: nothing is written or printed and the
\* handler returns without an error.
C7_UnknownChannelDropped ==
    [][\A i \in 1..Len(tasks) :
          (Ran(i) /\ IsMessageTask(tasks[i]) /\ ~Loggable(tasks[i])) =>
              /\ make_filename(tasks[i].message[1]) = None
              /\ tasks'[i].status = "returned"
              /\ UNCHANGED <<files, dirs, stdout>>]_vars

\* ------------------------------------------------------------ C8

\* C8: a write that fails is reported, not swallowed: the handler of a message
\* with a path returns normally only when the record is in the file, and
\* otherwise ends with the OSError of write.  Only that record is lost: the
\* failing call changes the content of no file, and no other handler
\* invocation.  The events handled after it are still appended.
C8_WriteFailureReported ==
    [][\A i \in 1..Len(tasks) :
          (Ran(i) /\ IsMessageTask(tasks[i]) /\ ~Suppressed(tasks[i]) /\ Loggable(tasks[i])) =>
              LET p == make_filename(tasks[i].message[1])[1]
                  rec == make_message(tasks[i].message[1]) \o << NL >>
              IN /\ \/ tasks'[i].status = "returned" /\ AppendedOneRecord(p, rec)
                    \/ /\ tasks'[i].status = "raised"
                       /\ tasks'[i].exc = "OSError"
                       /\ NoFileContentChanged
                 /\ \A j \in 1..Len(tasks) : j # i => tasks'[j] = tasks[j]]_vars

\* A write failed for one event, and the event handled after it is in its log file.
C8_Witness ==
    /\ Len(tasks) >= 2
    /\ tasks[1].message = Some(Msg1) /\ tasks[2].message = Some(Msg2)
    /\ tasks[1].status = "raised" /\ tasks[1].exc = "OSError"
    /\ tasks[2].status = "returned"
    /\ \E p \in DOMAIN files : files[p] = make_message(Msg2) \o << NL >>

\* ------------------------------------------------------------ C9

\* C9: for every event not suppressed by the ignore set, messages and audit
\* events alike, the line appended to the log file is also printed to the
\* console, once.
C9_EveryEventPrinted ==
    [][\A i \in 1..Len(tasks) :
          (Ran(i) /\ ~Suppressed(tasks[i])) =>
              /\ Printed # << >>
              /\ \E p \in DOMAIN files' : AppendedOneRecord(p, Printed)]_vars

\* ------------------------------------------------------------ C10

\* The positions of name that hold a character that is kept.
KeptPositions(name) == { i \in 1..Len(name) : name[i] \notin RemovedChars }

\* The k-th smallest element of a finite set of numbers.
Kth(S, k) == CHOOSE i \in S : Cardinality({ j \in S : j <= i }) = k

\* C10: clean_filename returns the name with exactly the characters
\* / \ : * ? " < > | and 0x00-0x1F removed and every other character kept in
\* its original order; it always returns, and cleaning the result again
\* changes nothing.
C10_CleanFilename ==
    (call.fn = "clean_filename" /\ result # None) =>
        LET name == call.arg
            out == result[1]
            kept == KeptPositions(name)
        IN /\ Len(out) = Cardinality(kept)
           /\ \A k \in 1..Len(out) : out[k] = name[Kth(kept, k)]
           /\ clean_filename(out) = out

\* A name that mixes removed and kept characters has been cleaned.
C10_Witness ==
    /\ call.fn = "clean_filename"
    /\ result # None
    /\ Len(call.arg) = 3
    /\ call.arg[1] = 124 /\ call.arg[2] = 97 /\ call.arg[3] = 31
    /\ result[1] = << 97 >>

====
